---- MODULE Spec2Model ----
(***************************************************************************)
(* Receipt processor: the validation pipeline, the scoring rules and the   *)
(* lock-guarded in-memory store of internal/handlers/handlers.go.          *)
(*                                                                         *)
(* Go strings are modelled as sequences of one-character strings, so that  *)
(* the regular expressions, time.Parse layouts and strconv conversions the *)
(* handlers apply are computed character by character.                     *)
(***************************************************************************)
EXTENDS Integers, Sequences, FiniteSets, TLC

(***************************************************************************)
(* Bounds of the model.                                                    *)
(***************************************************************************)
\* handler goroutines running concurrently
NumProcs == 2
\* requests served in one behaviour
MaxRequests == 3
\* identifiers uuid.New draws from
MaxIds == 2
\* longest purchaseTime string enumerated
MaxTimeLen == 6
\* largest total enumerated, in cents
MaxCents == 310

(***************************************************************************)
(* Characters and character classes.                                       *)
(***************************************************************************)
DigitChars == <<"0", "1", "2", "3", "4", "5", "6", "7", "8", "9">>

Digits == {DigitChars[i] : i \in 1..10}

Letters ==
    {"a", "b", "c", "d", "e", "f", "g", "h", "i", "j", "k", "l", "m",
     "n", "o", "p", "q", "r", "s", "t", "u", "v", "w", "x", "y", "z",
     "A", "B", "C", "D", "E", "F", "G", "H", "I", "J", "K", "L", "M",
     "N", "O", "P", "Q", "R", "S", "T", "U", "V", "W", "X", "Y", "Z"}

\* \w of Go's regexp (RE2): [0-9A-Za-z_]
WordChars == Letters \cup Digits \cup {"_"}

\* \s of Go's regexp (RE2): [\t\n\f\r ]
SpaceChars == {" ", "\t", "\n", "\f", "\r"}

isDigit(s, i) == i <= Len(s) /\ s[i] \in Digits

DigitVal(c) == (CHOOSE i \in 1..10 : DigitChars[i] = c) - 1

\* Every character of s is in class, and s is not empty: ^[class]+$
MatchesClassPlus(s, class) == Len(s) >= 1 /\ \A i \in 1..Len(s) : s[i] \in class

\* The substring s[from..to] (1-based, inclusive).
Sub(s, from, to) == SubSeq(s, from, to)

RECURSIVE DecimalValue(_)
\* The number an all-digit string denotes.
DecimalValue(s) ==
    IF Len(s) = 0 THEN 0
    ELSE 10 * DecimalValue(Sub(s, 1, Len(s) - 1)) + DigitVal(s[Len(s)])

(***************************************************************************)
(* time.Parse, as validateReceipt and the rule helpers call it: the        *)
(* layouts "15:04" and "2006-01-02".  The layout element "15" reads one or *)
(* two digits; "04", "01" and "02" read exactly two; "2006" reads exactly  *)
(* four; a literal of the layout must match, and text left over is an      *)
(* error.                                                                  *)
(***************************************************************************)
Rest(s, n) == Sub(s, n + 1, Len(s))

\* time.getnum: a one- or two-digit number at the head of s; with fixed,
\* two digits are required.
getnum(s, fixed) ==
    IF ~isDigit(s, 1) THEN [ok |-> FALSE, n |-> 0, rest |-> s]
    ELSE IF ~isDigit(s, 2)
         THEN IF fixed THEN [ok |-> FALSE, n |-> 0, rest |-> s]
              ELSE [ok |-> TRUE, n |-> DigitVal(s[1]), rest |-> Rest(s, 1)]
         ELSE [ok |-> TRUE, n |-> 10 * DigitVal(s[1]) + DigitVal(s[2]),
               rest |-> Rest(s, 2)]

\* time.skip for a one-character literal of the layout.
skip(s, lit) ==
    IF Len(s) >= 1 /\ s[1] = lit THEN [ok |-> TRUE, rest |-> Rest(s, 1)]
    ELSE [ok |-> FALSE, rest |-> s]

NoTime == [ok |-> FALSE, hour |-> 0, min |-> 0]

\* time.Parse("15:04", s)
ParseClock(s) ==
    LET h == getnum(s, FALSE)
        c == skip(h.rest, ":")
        m == getnum(c.rest, TRUE)
    IN  IF ~h.ok \/ h.n >= 24 THEN NoTime
        ELSE IF ~c.ok THEN NoTime
        ELSE IF ~m.ok \/ m.n >= 60 THEN NoTime
        ELSE IF Len(m.rest) # 0 THEN NoTime
        ELSE [ok |-> TRUE, hour |-> h.n, min |-> m.n]

isLeap(year) == year % 4 = 0 /\ (year % 100 # 0 \/ year % 400 = 0)

daysIn(month, year) ==
    IF month = 2 THEN (IF isLeap(year) THEN 29 ELSE 28)
    ELSE IF month \in {4, 6, 9, 11} THEN 30
    ELSE 31

NoDate == [ok |-> FALSE, year |-> 0, month |-> 0, day |-> 0]

\* time.Parse("2006-01-02", s)
ParseDate(s) ==
    IF Len(s) < 4 \/ \E i \in 1..4 : ~isDigit(s, i) THEN NoDate
    ELSE
      LET year == DecimalValue(Sub(s, 1, 4))
          d1 == skip(Rest(s, 4), "-")
          mo == getnum(d1.rest, TRUE)
          d2 == skip(mo.rest, "-")
          dy == getnum(d2.rest, TRUE)
      IN  IF ~d1.ok THEN NoDate
          ELSE IF ~mo.ok \/ mo.n <= 0 \/ mo.n > 12 THEN NoDate
          ELSE IF ~d2.ok THEN NoDate
          ELSE IF ~dy.ok THEN NoDate
          ELSE IF Len(dy.rest) # 0 THEN NoDate
          ELSE IF dy.n < 1 \/ dy.n > daysIn(mo.n, year) THEN NoDate
          ELSE [ok |-> TRUE, year |-> year, month |-> mo.n, day |-> dy.n]

(***************************************************************************)
(* Validation.                                                             *)
(***************************************************************************)
Nil == "nil"

\* ^\d+\.\d{2}$
MatchesAmount(s) ==
    /\ Len(s) >= 4
    /\ s[Len(s) - 2] = "."
    /\ isDigit(s, Len(s) - 1)
    /\ isDigit(s, Len(s))
    /\ \A i \in 1..(Len(s) - 3) : isDigit(s, i)

\* ^[\w\s\-&]+$
MatchesRetailer(s) == MatchesClassPlus(s, WordChars \cup SpaceChars \cup {"-", "&"})

\* ^[\w\s\-]+$
MatchesDescription(s) == MatchesClassPlus(s, WordChars \cup SpaceChars \cup {"-"})

validateItem(i) ==
    IF i.shortDescription = <<>> THEN "item short description is required"
    ELSE IF i.price = <<>> THEN "item price is required"
    ELSE IF ~MatchesDescription(i.shortDescription)
         THEN "invalid item short description format"
    ELSE IF ~MatchesAmount(i.price) THEN "invalid item price format"
    ELSE Nil

RECURSIVE validateItems(_)
\* The loop over r.Items: the error of the first item that has one.
validateItems(items) ==
    IF items = <<>> THEN Nil
    ELSE LET err == validateItem(Head(items))
         IN  IF err # Nil THEN err ELSE validateItems(Tail(items))

\* A variant of validateReceipt that checks the total before the purchase time.
validateReceiptTotalFirst(r) ==
    IF r.retailer = <<>> THEN "retailer is required"
    ELSE IF r.purchaseDate = <<>> THEN "purchaseDate is required"
    ELSE IF r.purchaseTime = <<>> THEN "purchaseTime is required"
    ELSE IF Len(r.items) = 0 THEN "at least one item is required"
    ELSE IF r.total = <<>> THEN "total is required"
    ELSE IF ~MatchesRetailer(r.retailer) THEN "invalid retailer name format"
    ELSE IF ~ParseDate(r.purchaseDate).ok THEN "invalid purchase date format"
    ELSE IF ~MatchesAmount(r.total) THEN "invalid total format"
    ELSE IF ~ParseClock(r.purchaseTime).ok THEN "invalid purchase time format"
    ELSE validateItems(r.items)

validateReceipt(r) ==
    IF r.retailer = <<>> THEN "retailer is required"
    ELSE IF r.purchaseDate = <<>> THEN "purchaseDate is required"
    ELSE IF r.purchaseTime = <<>> THEN "purchaseTime is required"
    ELSE IF Len(r.items) = 0 THEN "at least one item is required"
    ELSE IF r.total = <<>> THEN "total is required"
    ELSE IF ~MatchesRetailer(r.retailer) THEN "invalid retailer name format"
    ELSE IF ~ParseDate(r.purchaseDate).ok THEN "invalid purchase date format"
    ELSE IF ~ParseClock(r.purchaseTime).ok THEN "invalid purchase time format"
    ELSE IF ~MatchesAmount(r.total) THEN "invalid total format"
    ELSE validateItems(r.items)

(***************************************************************************)
(* Scoring.                                                                *)
(***************************************************************************)
RECURSIVE Pow2(_)
Pow2(k) == IF k = 0 THEN 1 ELSE 2 * Pow2(k - 1)

RECURSIVE Pow2Mod(_, _)
\* 2^k modulo m
Pow2Mod(k, m) == IF k = 0 THEN 1 % m ELSE (2 * Pow2Mod(k - 1, m)) % m

RECURSIVE ExpUp(_, _, _)
ExpUp(n, den, j) == IF n >= den * Pow2(j + 1) THEN ExpUp(n, den, j + 1) ELSE j

RECURSIVE ExpDown(_, _, _)
ExpDown(n, den, j) == IF n * Pow2(j) >= den THEN j ELSE ExpDown(n, den, j + 1)

\* The binary exponent of n/den: the j with 2^j <= n/den < 2^(j+1), n > 0.
Exponent(n, den) == IF n >= den THEN ExpUp(n, den, 0) ELSE 0 - ExpDown(n, den, 1)

\* The integer n as an amount string: dollars, a point, two digits of cents.
RECURSIVE FormatNat(_)
FormatNat(n) ==
    IF n < 10 THEN <<DigitChars[n + 1]>>
    ELSE Append(FormatNat(n \div 10), DigitChars[(n % 10) + 1])

\* The cents of an amount string that matches ^\d+\.\d{2}$.
Cents(s) == 100 * DecimalValue(Sub(s, 1, Len(s) - 3)) + DecimalValue(Rest(s, Len(s) - 2))

(***************************************************************************)
(* int(f * 100) for f = strconv.ParseFloat(s, 64), s an amount of n cents. *)
(* IEEE-754 binary64, round to nearest even, computed exactly:             *)
(*   f = M / 2^k is the double nearest n/100, with k = 52 - j and j the    *)
(*   binary exponent of n/100; with r = (n * 2^k) mod 100, f is rounded    *)
(*   down when r < 50 and then 100 * f = n - r / 2^k exactly (r = 50 needs *)
(*   4 not to divide n * 2^k, which k >= 2 excludes).  The product is      *)
(*   rounded to a double again: the doubles next to the integer n are      *)
(*   2^(m-52) apart (m the binary exponent of n; half that below a power   *)
(*   of two), so the product becomes the double below n exactly when       *)
(*   r / 2^k exceeds half that gap, a tie going to n, whose significand is *)
(*   even.  The conversion to int then truncates to n - 1.                 *)
(***************************************************************************)
IntOfFloatTimes100(n) ==
    IF n = 0 THEN 0
    ELSE LET j == Exponent(n, 100)
             m == Exponent(n, 1)
             k == 52 - j
             r == ((n % 100) * Pow2Mod(k, 100)) % 100
             gap == IF n = Pow2(m) THEN Pow2(m - j - 2) ELSE Pow2(m - j - 1)
         IN  IF r = 0 \/ r > 50 THEN n
             ELSE IF r > gap THEN n - 1
             ELSE n

\* int(math.Ceil(price * 0.2)) for a price of n cents.  The double 0.2 is
\* 0.2 * (1 + 2^-54); for n a multiple of 500 the price is an integer, the
\* exact product n/500 * (1 + 2^-54) lies less than half a gap above the
\* integer n/500 and rounds to it; otherwise n/500 is at least 1/500 away
\* from an integer, far more than the rounding error, so the ceiling is that
\* of the exact quotient.
CeilOfFloatTimesPoint2(n) == (n + 499) \div 500

RECURSIVE countAlphanumeric(_)
countAlphanumeric(s) ==
    IF s = <<>> THEN 0
    ELSE (IF Head(s) \in Letters \cup Digits THEN 1 ELSE 0) + countAlphanumeric(Tail(s))

\* strings.HasSuffix(s, suffix)
HasSuffix(s, suffix) ==
    Len(s) >= Len(suffix) /\ Sub(s, Len(s) - Len(suffix) + 1, Len(s)) = suffix

RECURSIVE TrimLeft(_)
TrimLeft(s) == IF s # <<>> /\ Head(s) \in SpaceChars THEN TrimLeft(Tail(s)) ELSE s

RECURSIVE TrimRight(_)
TrimRight(s) ==
    IF s # <<>> /\ s[Len(s)] \in SpaceChars THEN TrimRight(Sub(s, 1, Len(s) - 1)) ELSE s

\* strings.TrimSpace on a description that passed validation (ASCII only).
TrimSpace(s) == TrimRight(TrimLeft(s))

\* Called on totals that passed validation, where ParseFloat cannot fail.
isTotalMultipleOf25Cents(total) == IntOfFloatTimes100(Cents(total)) % 25 = 0

isPurchaseDateOdd(date) ==
    LET t == ParseDate(date) IN t.ok /\ t.day % 2 # 0

isPurchaseTimeBetween2And4PM(timeStr) ==
    LET t == ParseClock(timeStr) IN t.ok /\ t.hour >= 14 /\ t.hour < 16

RECURSIVE ItemPoints(_)
\* Rule 5, the loop over r.Items.
ItemPoints(items) ==
    IF items = <<>> THEN 0
    ELSE (IF Len(TrimSpace(Head(items).shortDescription)) % 3 = 0
          THEN CeilOfFloatTimesPoint2(Cents(Head(items).price))
          ELSE 0) + ItemPoints(Tail(items))

calculatePoints(r) ==
      countAlphanumeric(r.retailer)
    + (IF HasSuffix(r.total, <<".", "0", "0">>) THEN 50 ELSE 0)
    + (IF isTotalMultipleOf25Cents(r.total) THEN 25 ELSE 0)
    + (Len(r.items) \div 2) * 5
    + ItemPoints(r.items)
    + (IF isPurchaseDateOdd(r.purchaseDate) THEN 6 ELSE 0)
    + (IF isPurchaseTimeBetween2And4PM(r.purchaseTime) THEN 10 ELSE 0)

(***************************************************************************)
(* The server: requests, handler goroutines and the store.                 *)
(***************************************************************************)
Procs == 1..NumProcs

\* Identifiers uuid.New can return.
Ids == 1..MaxIds

NoId == 0

NoPoints == 0 - 1

\* The Authorization header of a request, by what jwt.Parse finds in it.
NoHeader == [present |-> FALSE, hmac |-> FALSE, signed |-> FALSE, expired |-> FALSE]

GoodToken == [present |-> TRUE, hmac |-> TRUE, signed |-> TRUE, expired |-> FALSE]

ForgedToken == [present |-> TRUE, hmac |-> TRUE, signed |-> FALSE, expired |-> FALSE]

ExpiredToken == [present |-> TRUE, hmac |-> TRUE, signed |-> TRUE, expired |-> TRUE]

\* utils.ValidateJWT: a header is there, the signing method is HMAC, the
\* signature verifies under jwtSecret and the registered claims are valid.
ValidateJWT(token) ==
    IF ~token.present THEN FALSE
    ELSE token.hmac /\ token.signed /\ ~token.expired

Item(d, p) == [shortDescription |-> d, price |-> p]

NoReceipt ==
    [retailer |-> <<>>, purchaseDate |-> <<>>, purchaseTime |-> <<>>,
     items |-> <<>>, total |-> <<>>]

\* The receipt of the README's example request.
TargetReceipt ==
    [retailer |-> <<"T", "a", "r", "g", "e", "t">>,
     purchaseDate |-> <<"2", "0", "2", "2", "-", "0", "1", "-", "0", "1">>,
     purchaseTime |-> <<"1", "3", ":", "0", "1">>,
     items |-> <<Item(<<"M", "o", "u", "n", "t", "a", "i", "n", " ", "D", "e", "w",
                        " ", "1", "2", "P", "K">>, <<"6", ".", "4", "9">>),
                 Item(<<"E", "m", "i", "l", "s", " ", "C", "h", "e", "e", "s", "e",
                        " ", "P", "i", "z", "z", "a">>, <<"1", "2", ".", "2", "5">>)>>,
     total |-> <<"1", "8", ".", "7", "4">>]

MarketReceipt ==
    [retailer |-> <<"M", "&", "M">>,
     purchaseDate |-> <<"2", "0", "2", "2", "-", "0", "3", "-", "2", "0">>,
     purchaseTime |-> <<"1", "4", ":", "3", "3">>,
     items |-> <<Item(<<"G", "a", "t", "o", "r", "a", "d", "e">>, <<"2", ".", "2", "5">>)>>,
     total |-> <<"2", ".", "2", "5">>]

\* purchaseDate "2022-13-01": no thirteenth month
BadDateReceipt ==
    [TargetReceipt EXCEPT
        !.purchaseDate = <<"2", "0", "2", "2", "-", "1", "3", "-", "0", "1">>]

\* A request body: bytes that json.Decode rejects, or a JSON receipt.
Malformed == [wellFormed |-> FALSE, receipt |-> NoReceipt]

Body(r) == [wellFormed |-> TRUE, receipt |-> r]

SubmitRequest(t, b) == [kind |-> "submit", token |-> t, body |-> b, id |-> NoId]

GetRequest(t, i) == [kind |-> "get", token |-> t, body |-> Malformed, id |-> i]

\* POST /receipts/process
SubmitRequests ==
    {SubmitRequest(GoodToken, b) :
        b \in {Malformed, Body(TargetReceipt), Body(MarketReceipt), Body(BadDateReceipt)}}
    \cup {SubmitRequest(NoHeader, Body(TargetReceipt)),
          SubmitRequest(ForgedToken, Body(BadDateReceipt))}

\* GET /receipts/{id}/points
GetRequests ==
    {GetRequest(GoodToken, i) : i \in Ids}
    \cup {GetRequest(t, 1) : t \in {NoHeader, ExpiredToken}}

NoRequest == [kind |-> "none", token |-> NoHeader, body |-> Malformed, id |-> NoId]

NoResponse == [status |-> 0, text |-> "", id |-> NoId, points |-> NoPoints]

ErrorResponse(code, msg) == [status |-> code, text |-> msg, id |-> NoId, points |-> NoPoints]

IdResponse(i) == [status |-> 200, text |-> "", id |-> i, points |-> NoPoints]

PointsResponse(n) == [status |-> 200, text |-> "", id |-> NoId, points |-> n]

\* models.ProcessedReceipt
ProcessedReceipt(i, n) == [ID |-> i, Points |-> n]

NoEntry == [exists |-> FALSE, receipt |-> ProcessedReceipt(NoId, NoPoints)]

VARIABLES
    pc,        \* where each handler goroutine is
    req,       \* the request it serves
    points,    \* ProcessReceipt's local points
    newid,     \* ProcessReceipt's local id
    found,     \* GetPoints's locals receipt, exists
    resp,      \* the response written
    holds,     \* mu: "none", "r" (RLock held) or "w" (Lock held), per goroutine
    receipts,  \* the map receipts
    issued,    \* the identifiers uuid.New has returned
    nreq,      \* requests received so far
    acked,     \* history: the identifiers a response has carried
    sawAcked,  \* history: the request is a lookup of an identifier already in acked
    rcpt,      \* sequential run: the receipt handed to validateReceipt
    verr,      \* sequential run: its error
    pts        \* sequential run: the points calculated

seqVars == <<rcpt, verr, pts>>

vars == <<pc, req, points, newid, found, resp, holds, receipts, issued, nreq, acked,
          sawAcked, rcpt, verr, pts>>

InitServer ==
    /\ pc = [p \in Procs |-> "idle"]
    /\ req = [p \in Procs |-> NoRequest]
    /\ points = [p \in Procs |-> NoPoints]
    /\ newid = [p \in Procs |-> NoId]
    /\ found = [p \in Procs |-> NoEntry]
    /\ resp = [p \in Procs |-> NoResponse]
    /\ holds = [p \in Procs |-> "none"]
    /\ receipts = <<>>
    /\ issued = {}
    /\ nreq = 0
    /\ acked = {}
    /\ sawAcked = [p \in Procs |-> FALSE]

InitSeqIdle ==
    /\ rcpt = NoReceipt
    /\ verr = "idle"
    /\ pts = NoPoints

Init == InitServer /\ InitSeqIdle

Goto(p, label) == pc' = [pc EXCEPT ![p] = label]

Reply(p, r) == resp' = [resp EXCEPT ![p] = r]

\* The goroutine's locals are gone when its handler returns.
DropLocals(p) ==
    /\ points' = [points EXCEPT ![p] = NoPoints]
    /\ newid' = [newid EXCEPT ![p] = NoId]
    /\ found' = [found EXCEPT ![p] = NoEntry]

\* The router starts a handler for the next request on a free goroutine.
CanServe(p) == pc[p] \in {"idle", "done"} /\ nreq < MaxRequests

(***************************************************************************)
(* ProcessReceipt                                                          *)
(***************************************************************************)
\* A variant of SubmitChecks that validates the receipt before the token.
SubmitChecksTokenLast(r) ==
    IF ~r.body.wellFormed THEN ErrorResponse(400, "Invalid JSON format")
    ELSE LET err == validateReceipt(r.body.receipt)
         IN  IF err # Nil THEN ErrorResponse(400, err)
             ELSE IF ~ValidateJWT(r.token) THEN ErrorResponse(401, "Unauthorized")
             ELSE NoResponse

\* A variant of SubmitChecks that does not validate the receipt.
SubmitChecksNoValidation(r) ==
    IF ~ValidateJWT(r.token) THEN ErrorResponse(401, "Unauthorized")
    ELSE IF ~r.body.wellFormed THEN ErrorResponse(400, "Invalid JSON format")
    ELSE NoResponse

\* The early returns of ProcessReceipt: the error response written, or
\* NoResponse when the handler goes on to score the receipt.
SubmitChecks(r) ==
    IF ~ValidateJWT(r.token) THEN ErrorResponse(401, "Unauthorized")
    ELSE IF ~r.body.wellFormed THEN ErrorResponse(400, "Invalid JSON format")
    ELSE LET err == validateReceipt(r.body.receipt)
         IN  IF err # Nil THEN ErrorResponse(400, err)
             ELSE NoResponse

\* A generator that may repeat an identifier.
RepeatingUUIDs == Ids

\* uuid.New: an identifier it has not returned before.
NewUUIDs == Ids \ issued

\* What ProcessReceipt decides before it takes the lock, for each request:
\* the early return, and the points of line 50.
SubmitOutcome ==
    [r \in SubmitRequests |->
        LET reply == SubmitChecks(r)
        IN  [reply |-> reply,
             points |-> IF reply = NoResponse THEN calculatePoints(r.body.receipt)
                        ELSE NoPoints]]

\* ProcessReceipt up to the lock: the token, the body, the validation, the
\* points and the identifier.
SubmitBegin(p) ==
    /\ CanServe(p)
    /\ nreq' = nreq + 1
    /\ \E r \in SubmitRequests :
        /\ req' = [req EXCEPT ![p] = r]
        /\ IF SubmitOutcome[r].reply # NoResponse
           THEN /\ Reply(p, SubmitOutcome[r].reply)
                /\ Goto(p, "done")
                /\ DropLocals(p)
                /\ UNCHANGED issued
           ELSE /\ Reply(p, NoResponse)
                /\ \E i \in NewUUIDs :
                    /\ newid' = [newid EXCEPT ![p] = i]
                    /\ issued' = issued \cup {i}
                /\ points' = [points EXCEPT ![p] = SubmitOutcome[r].points]
                /\ found' = [found EXCEPT ![p] = NoEntry]
                /\ Goto(p, "lock")
    /\ sawAcked' = [sawAcked EXCEPT ![p] = FALSE]
    /\ UNCHANGED <<holds, receipts, acked, seqVars>>

\* mu.Lock returns when no goroutine holds mu for reading or writing.
CanLock(p) == \A q \in Procs : holds[q] = "none"

\* An RLock that does not wait for the writer.
CanRLockAlways(p) == TRUE

\* mu.RLock returns when no goroutine holds mu for writing.
CanRLock(p) == \A q \in Procs : holds[q] # "w"

SubmitLock(p) ==
    /\ pc[p] = "lock"
    /\ CanLock(p)
    /\ holds' = [holds EXCEPT ![p] = "w"]
    /\ Goto(p, "insert")
    /\ UNCHANGED <<req, points, newid, found, resp, receipts, issued, nreq, acked,
                   sawAcked, seqVars>>

\* The map m with key k set to v.
MapSet(m, k, v) == [x \in DOMAIN m \cup {k} |-> IF x = k THEN v ELSE m[x]]

\* A variant of SubmitInsert that loses the write.
SubmitInsertLost(p) ==
    /\ pc[p] = "insert"
    /\ Goto(p, "unlock")
    /\ UNCHANGED <<req, points, newid, found, resp, holds, receipts, issued, nreq,
                   acked, sawAcked, seqVars>>

\* A variant of SubmitInsert whose stored points grow with the size of the store.
SubmitInsertCounting(p) ==
    /\ pc[p] = "insert"
    /\ receipts' = MapSet(receipts, newid[p],
                          ProcessedReceipt(newid[p], points[p] + Cardinality(DOMAIN receipts)))
    /\ Goto(p, "unlock")
    /\ UNCHANGED <<req, points, newid, found, resp, holds, issued, nreq, acked,
                   sawAcked, seqVars>>

SubmitInsert(p) ==
    /\ pc[p] = "insert"
    /\ receipts' = MapSet(receipts, newid[p], ProcessedReceipt(newid[p], points[p]))
    /\ Goto(p, "unlock")
    /\ UNCHANGED <<req, points, newid, found, resp, holds, issued, nreq, acked,
                   sawAcked, seqVars>>

SubmitUnlock(p) ==
    /\ pc[p] = "unlock"
    /\ holds' = [holds EXCEPT ![p] = "none"]
    /\ Goto(p, "respond")
    /\ UNCHANGED <<req, points, newid, found, resp, receipts, issued, nreq, acked,
                   sawAcked, seqVars>>

SubmitRespond(p) ==
    /\ pc[p] = "respond"
    /\ Reply(p, IdResponse(newid[p]))
    /\ acked' = acked \cup {newid[p]}
    /\ Goto(p, "done")
    /\ DropLocals(p)
    /\ UNCHANGED <<req, holds, receipts, issued, nreq, sawAcked, seqVars>>

(***************************************************************************)
(* GetPoints                                                               *)
(***************************************************************************)
\* GetPoints up to the read lock: the token and the id of the URL.
GetBegin(p) ==
    /\ CanServe(p)
    /\ nreq' = nreq + 1
    /\ \E r \in GetRequests :
        /\ req' = [req EXCEPT ![p] = r]
        /\ sawAcked' = [sawAcked EXCEPT ![p] = r.id \in acked]
        /\ IF ~ValidateJWT(r.token)
           THEN Reply(p, ErrorResponse(401, "Unauthorized")) /\ Goto(p, "done")
           ELSE Reply(p, NoResponse) /\ Goto(p, "rlock")
    /\ DropLocals(p)
    /\ UNCHANGED <<holds, receipts, issued, acked, seqVars>>

GetRLock(p) ==
    /\ pc[p] = "rlock"
    /\ CanRLock(p)
    /\ holds' = [holds EXCEPT ![p] = "r"]
    /\ Goto(p, "read")
    /\ UNCHANGED <<req, points, newid, found, resp, receipts, issued, nreq, acked,
                   sawAcked, seqVars>>

\* receipt, exists := receipts[id]
GetRead(p) ==
    /\ pc[p] = "read"
    /\ found' = [found EXCEPT ![p] =
                    IF req[p].id \in DOMAIN receipts
                    THEN [exists |-> TRUE, receipt |-> receipts[req[p].id]]
                    ELSE NoEntry]
    /\ Goto(p, "runlock")
    /\ UNCHANGED <<req, points, newid, resp, holds, receipts, issued, nreq, acked,
                   sawAcked, seqVars>>

GetRUnlock(p) ==
    /\ pc[p] = "runlock"
    /\ holds' = [holds EXCEPT ![p] = "none"]
    /\ Goto(p, "g_respond")
    /\ UNCHANGED <<req, points, newid, found, resp, receipts, issued, nreq, acked,
                   sawAcked, seqVars>>

\* A variant of GetAnswer without the exists check.
GetAnswerUnchecked(f) == PointsResponse(f.receipt.Points)

\* The response GetPoints writes for what the read found.
GetAnswer(f) ==
    IF ~f.exists THEN ErrorResponse(404, "No receipt found for that ID")
    ELSE PointsResponse(f.receipt.Points)

GetRespond(p) ==
    /\ pc[p] = "g_respond"
    /\ Reply(p, GetAnswer(found[p]))
    /\ Goto(p, "done")
    /\ DropLocals(p)
    /\ UNCHANGED <<req, holds, receipts, issued, nreq, acked, sawAcked, seqVars>>

Next ==
    \E p \in Procs :
        \/ SubmitBegin(p)
        \/ SubmitLock(p)
        \/ SubmitInsert(p)
        \/ SubmitUnlock(p)
        \/ SubmitRespond(p)
        \/ GetBegin(p)
        \/ GetRLock(p)
        \/ GetRead(p)
        \/ GetRUnlock(p)
        \/ GetRespond(p)

Spec == Init /\ [][Next]_vars

(***************************************************************************)
(* Properties of the server.                                               *)
(***************************************************************************)
IsLookup(p) == req[p].kind = "get" /\ ValidateJWT(req[p].token)

Answered(p) == pc[p] = "done" /\ IsLookup(p)

\* A submit that passes the token check and the decoding and fails validation.
InvalidSubmit(r) ==
    /\ r.kind = "submit"
    /\ ValidateJWT(r.token)
    /\ r.body.wellFormed
    /\ validateReceipt(r.body.receipt) # Nil

\* C1: an identifier a submit has returned is in the store, and a getPoints
\* that starts after the identifier was returned answers with its points,
\* never NotFound.
C1_AckedIsFound ==
    /\ acked \subseteq DOMAIN receipts
    /\ \A p \in Procs :
        (Answered(p) /\ sawAcked[p]) =>
            resp[p] = PointsResponse(receipts[req[p].id].Points)

C1_Witness ==
    \E p \in Procs : Answered(p) /\ sawAcked[p] /\ resp[p].status = 200

\* C2: a submit whose receipt fails validation ends in that one step with
\* status 400 and the validation reason; no points are calculated, no
\* identifier is generated or returned, and the store, the lock and the
\* identifiers issued are what they were.
C2_InvalidRejected ==
    [][\A p \in Procs :
        (SubmitBegin(p) /\ InvalidSubmit(req'[p])) =>
            /\ pc'[p] = "done"
            /\ resp'[p] = ErrorResponse(400, validateReceipt(req'[p].body.receipt))
            /\ points'[p] = NoPoints
            /\ newid'[p] = NoId
            /\ UNCHANGED <<receipts, issued, acked, holds>>]_vars

C2_Witness ==
    \E p \in Procs :
        /\ pc[p] = "done"
        /\ InvalidSubmit(req[p])
        /\ resp[p] = ErrorResponse(400, "invalid purchase date format")

\* C3: no step removes an entry of the store or changes its points, and
\* every answered lookup carries the points the store holds for its id, so
\* two lookups of one identifier answer alike.
C3_EntriesNeverChange ==
    /\ [][\A i \in DOMAIN receipts :
            i \in DOMAIN receipts' /\ receipts'[i] = receipts[i]]_vars
    /\ [](\A p \in Procs :
            (Answered(p) /\ resp[p].status = 200) =>
                /\ req[p].id \in DOMAIN receipts
                /\ resp[p].points = receipts[req[p].id].Points)

C3_Witness ==
    \E p, q \in Procs :
        /\ p # q
        /\ Answered(p) /\ Answered(q)
        /\ req[p].id = req[q].id
        /\ resp[p].status = 200 /\ resp[q].status = 200
        /\ resp[p].points = resp[q].points

\* C4: while a goroutine holds mu for writing no other goroutine holds it at
\* all; the map is written only under the write lock and read only under the
\* read lock; and what a lookup has read is no entry or the whole entry the
\* store holds for that id, with that id and its points.
C4_WriterExcludes ==
    /\ \A p, q \in Procs : (p # q /\ holds[p] = "w") => holds[q] = "none"
    /\ \A p \in Procs :
        /\ pc[p] = "insert" => holds[p] = "w"
        /\ pc[p] = "read" => holds[p] = "r"
        /\ found[p].exists =>
            /\ req[p].id \in DOMAIN receipts
            /\ found[p].receipt = receipts[req[p].id]
            /\ found[p].receipt.ID = req[p].id
            /\ found[p].receipt.Points >= 0

C4_Witness ==
    \E p, q \in Procs :
        /\ p # q
        /\ pc[p] = "insert" /\ holds[p] = "w"
        /\ pc[q] \in {"lock", "rlock"}

\* C5 as stated: a lookup of an identifier that no submit has returned yet
\* answers NotFound.
C5_NeverReturnedIsNotFound ==
    [][\A p \in Procs :
        (GetRespond(p) /\ req[p].id \notin acked) => resp'[p].status = 404]_vars

GetStep(p) == GetBegin(p) \/ GetRLock(p) \/ GetRead(p) \/ GetRUnlock(p) \/ GetRespond(p)

\* C5, amended: a lookup of an identifier that is not in the store (so of any
\* identifier no submit has generated) answers NotFound; a lookup that passed
\* the token check answers with points or NotFound; and no step of GetPoints
\* changes the store.
C5_NotStoredIsNotFound ==
    [][\A p \in Procs :
        /\ GetRespond(p) =>
            /\ resp'[p].status \in {200, 404}
            /\ req[p].id \notin DOMAIN receipts =>
                resp'[p] = ErrorResponse(404, "No receipt found for that ID")
            /\ req[p].id \notin issued => resp'[p].status = 404
        /\ GetStep(p) => UNCHANGED <<receipts, issued, acked>>]_vars

C5_Witness ==
    \E p \in Procs :
        /\ Answered(p)
        /\ req[p].id \notin issued
        /\ resp[p] = ErrorResponse(404, "No receipt found for that ID")

\* C6: a request whose token does not validate ends in its first step with
\* status 401 and nothing else: no validation reason, no points, no
\* identifier, no entry read, and the store, the lock and the identifiers
\* issued unchanged; such a request is never at any later step of a handler.
C6_TokenFirst ==
    /\ [][\A p \in Procs :
            ((SubmitBegin(p) \/ GetBegin(p)) /\ ~ValidateJWT(req'[p].token)) =>
                /\ pc'[p] = "done"
                /\ resp'[p] = ErrorResponse(401, "Unauthorized")
                /\ points'[p] = NoPoints
                /\ newid'[p] = NoId
                /\ found'[p] = NoEntry
                /\ UNCHANGED <<receipts, issued, acked, holds>>]_vars
    /\ [](\A p \in Procs :
            (req[p].kind # "none" /\ ~ValidateJWT(req[p].token)) =>
                pc[p] = "done" /\ resp[p] = ErrorResponse(401, "Unauthorized"))

C6_Witness ==
    \E p, q \in Procs :
        /\ pc[p] = "done" /\ req[p].kind = "submit" /\ ~ValidateJWT(req[p].token)
        /\ pc[q] = "done" /\ req[q].kind = "get" /\ ~ValidateJWT(req[q].token)
        /\ resp[p].status = 401 /\ resp[q].status = 401

(***************************************************************************)
(* One request run on its own: lines 43-50 of ProcessReceipt for a receipt *)
(* drawn from a set of inputs, the validation and then the scoring.        *)
(***************************************************************************)
Validate ==
    /\ verr = "pending"
    /\ verr' = validateReceipt(rcpt)
    /\ UNCHANGED <<pc, req, points, newid, found, resp, holds, receipts, issued, nreq,
                   acked, sawAcked, rcpt, pts>>

Score ==
    /\ verr = Nil
    /\ pts = NoPoints
    /\ pts' = calculatePoints(rcpt)
    /\ UNCHANGED <<pc, req, points, newid, found, resp, holds, receipts, issued, nreq,
                   acked, sawAcked, rcpt, verr>>

NextSeq == Validate \/ Score

Validated == verr \notin {"idle", "pending"}

Scored == pts # NoPoints

\* All strings over chars of length at most n.
StringsUpTo(chars, n) == UNION {[1..k -> chars] : k \in 0..n}

\* Hours around 23/24, minutes around 59/60, the colon and a letter.
TimeChars == {"0", "2", "3", "4", "5", "6", "9", ":", "x"}

InitTime ==
    /\ InitServer
    /\ rcpt \in {[TargetReceipt EXCEPT !.purchaseTime = s] :
                    s \in StringsUpTo(TimeChars, MaxTimeLen)}
    /\ verr = "pending"
    /\ pts = NoPoints

SpecTime == InitTime /\ [][NextSeq]_vars

\* HH:MM exactly: two hour digits, a colon, two minute digits, hour at most
\* 23 and minute at most 59.
StrictHHMM(s) ==
    /\ Len(s) = 5
    /\ isDigit(s, 1) /\ isDigit(s, 2) /\ s[3] = ":" /\ isDigit(s, 4) /\ isDigit(s, 5)
    /\ 10 * DigitVal(s[1]) + DigitVal(s[2]) <= 23
    /\ 10 * DigitVal(s[4]) + DigitVal(s[5]) <= 59

\* C10: a purchaseTime is accepted only when it is strictly HH:MM; every
\* other string is rejected with the purchase-time format reason (the
\* missing-field reason when it is empty) and the receipt is not scored.
C10_StrictClockOnly ==
    Validated =>
        IF StrictHHMM(rcpt.purchaseTime) THEN verr = Nil
        ELSE /\ verr = (IF rcpt.purchaseTime = <<>> THEN "purchaseTime is required"
                        ELSE "invalid purchase time format")
             /\ ~Scored

\* What the code does instead: the hour may be written with one digit.
C10_OneDigitHourScored ==
    /\ Scored
    /\ ~StrictHHMM(rcpt.purchaseTime)
    /\ rcpt.purchaseTime = <<"9", ":", "0", "5">>

(***************************************************************************)
(* Receipts that break several checks at once.                             *)
(***************************************************************************)
GoodItem == Item(<<"G", "u", "m">>, <<"1", ".", "2", "5">>)

\* "Gum!" is outside the description pattern
BadDescItem == Item(<<"G", "u", "m", "!">>, <<"1", ".", "2", "5">>)

\* price "1.2" has one fractional digit
BadPriceItem == Item(<<"G", "u", "m">>, <<"1", ".", "2">>)

\* a malformed description and no price
NoPriceItem == Item(<<"G", "u", "m", "!">>, <<>>)

\* no description and a malformed price
NoDescItem == Item(<<>>, <<"1", ".", "2">>)

ValidateRetailers == {<<>>, <<"T", "-", "4">>, <<"T", "!">>}

ValidateDates ==
    {<<>>,
     <<"2", "0", "2", "2", "-", "0", "1", "-", "0", "1">>,
     <<"2", "0", "2", "2", "-", "0", "2", "-", "3", "0">>,
     <<"2", "0", "2", "2", "-", "1", "-", "0", "1">>}

ValidateTimes == {<<>>, <<"1", "3", ":", "0", "1">>, <<"2", "4", ":", "0", "0">>}

ValidateTotals == {<<>>, <<"1", "8", ".", "7", "4">>, <<"1", "8", ".", "7">>}

ValidateItemLists ==
    {<<>>,
     <<GoodItem>>,
     <<GoodItem, GoodItem>>,
     <<GoodItem, BadDescItem, BadPriceItem>>,
     <<BadPriceItem, BadDescItem>>,
     <<GoodItem, NoPriceItem, NoDescItem>>,
     <<NoDescItem, GoodItem>>}

InitValidate ==
    /\ InitServer
    /\ rcpt \in [retailer : ValidateRetailers, purchaseDate : ValidateDates,
                 purchaseTime : ValidateTimes, items : ValidateItemLists,
                 total : ValidateTotals]
    /\ verr = "pending"
    /\ pts = NoPoints

SpecValidate == InitValidate /\ [][NextSeq]_vars

\* The checks of the receipt's own fields, each taken alone, in the order
\* of the list: <<the check fails, its reason>>.
FieldChecks(r) ==
    << <<r.retailer = <<>>, "retailer is required">>,
       <<r.purchaseDate = <<>>, "purchaseDate is required">>,
       <<r.purchaseTime = <<>>, "purchaseTime is required">>,
       <<Len(r.items) = 0, "at least one item is required">>,
       <<r.total = <<>>, "total is required">>,
       <<~MatchesRetailer(r.retailer), "invalid retailer name format">>,
       <<~ParseDate(r.purchaseDate).ok, "invalid purchase date format">>,
       <<~ParseClock(r.purchaseTime).ok, "invalid purchase time format">>,
       <<~MatchesAmount(r.total), "invalid total format">> >>

\* The reasons an item is invalid for: a missing field by a missing-field
\* reason, a malformed one by a format reason.
ItemReasons(i) ==
    (IF i.shortDescription = <<>> THEN {"item short description is required"}
     ELSE IF ~MatchesDescription(i.shortDescription)
          THEN {"invalid item short description format"}
     ELSE {})
    \cup
    (IF i.price = <<>> THEN {"item price is required"}
     ELSE IF ~MatchesAmount(i.price) THEN {"invalid item price format"}
     ELSE {})

FailedFields(r) == {k \in 1..Len(FieldChecks(r)) : FieldChecks(r)[k][1]}

InvalidItems(r) == {k \in 1..Len(r.items) : ItemReasons(r.items[k]) # {}}

Least(S) == CHOOSE k \in S : \A j \in S : k <= j

\* C7: the reason is that of the earliest failing check in the order
\* presence of retailer, purchaseDate, purchaseTime, items, total, then
\* retailer pattern, purchaseDate, purchaseTime, total format, then the
\* items in sequence; the first invalid item gives the item reason; a
\* receipt no check fails for is accepted.
C7_EarliestCheckDecides ==
    Validated =>
        IF FailedFields(rcpt) # {}
        THEN verr = FieldChecks(rcpt)[Least(FailedFields(rcpt))][2]
        ELSE IF InvalidItems(rcpt) # {}
        THEN verr \in ItemReasons(rcpt.items[Least(InvalidItems(rcpt))])
        ELSE verr = Nil

\* A date, a time, a total and two items are all wrong; the date is reported.
C7_Witness ==
    /\ Validated
    /\ {7, 8, 9} \subseteq FailedFields(rcpt)
    /\ Cardinality(InvalidItems(rcpt)) = 2
    /\ verr = "invalid purchase date format"

(***************************************************************************)
(* Valid receipts for the scoring rules.                                   *)
(***************************************************************************)
\* n cents as an amount string
FormatCents(n) ==
    FormatNat(n \div 100) \o <<".", DigitChars[((n % 100) \div 10) + 1], DigitChars[(n % 10) + 1]>>

\* Every total up to MaxCents, and 100.00, 100.10, 100.25.
ScoreTotals == {FormatCents(n) : n \in (0..MaxCents) \cup {10000, 10010, 10025}}

ScoreRetailers == {TargetReceipt.retailer, MarketReceipt.retailer}

ScoreDates == {TargetReceipt.purchaseDate, MarketReceipt.purchaseDate}

ScoreTimes ==
    {<<"1", "3", ":", "0", "1">>, <<"1", "3", ":", "5", "9">>, <<"1", "4", ":", "0", "0">>,
     <<"1", "5", ":", "5", "9">>, <<"1", "6", ":", "0", "0">>}

ScoreItemLists ==
    {TargetReceipt.items,
     MarketReceipt.items,
     <<Item(<<" ", "G", "u", "m", " ">>, <<"5", ".", "0", "0">>),
       Item(<<"G", "u", "m">>, <<"5", ".", "0", "1">>),
       Item(<<" ", " ">>, <<"0", ".", "0", "1">>)>>}

InitScore ==
    /\ InitServer
    /\ rcpt \in [retailer : ScoreRetailers, purchaseDate : ScoreDates,
                 purchaseTime : ScoreTimes, items : ScoreItemLists, total : ScoreTotals]
    /\ verr = "pending"
    /\ pts = NoPoints

SpecScore == InitScore /\ [][NextSeq]_vars

\* The rule table, each rule on its own.
R1(r) == Cardinality({k \in 1..Len(r.retailer) : r.retailer[k] \in Letters \cup Digits})

R2(r) == IF Sub(r.total, Len(r.total) - 1, Len(r.total)) = <<"0", "0">> THEN 50 ELSE 0

R3(r) == IF Cents(r.total) % 25 = 0 THEN 25 ELSE 0

R4(r) == 5 * (Len(r.items) \div 2)

\* The least integer that is at least cents/100 * 0.2 = cents/500.
CeilFifth(cents) == CHOOSE n \in 0..cents : 500 * n >= cents /\ 500 * (n - 1) < cents

RECURSIVE R5Items(_)
R5Items(items) ==
    IF items = <<>> THEN 0
    ELSE (IF Len(TrimSpace(Head(items).shortDescription)) % 3 = 0
          THEN CeilFifth(Cents(Head(items).price)) ELSE 0) + R5Items(Tail(items))

R5(r) == R5Items(r.items)

R6(r) == IF DecimalValue(Rest(r.purchaseDate, 8)) % 2 = 1 THEN 6 ELSE 0

MinuteOfDay(s) == 60 * DecimalValue(Sub(s, 1, 2)) + DecimalValue(Sub(s, 4, 5))

R7(r) == IF MinuteOfDay(r.purchaseTime) >= 840 /\ MinuteOfDay(r.purchaseTime) < 960 THEN 10 ELSE 0

RulesButR3(r) == R1(r) + R2(r) + R4(r) + R5(r) + R6(r) + R7(r)

\* C8: the points of a valid receipt are the sum of the seven rules of the
\* table, never negative, and the Target receipt scores 20.
C8_PointsAreRuleSum ==
    Scored =>
        /\ pts = RulesButR3(rcpt) + R3(rcpt)
        /\ pts >= 0
        /\ rcpt = TargetReceipt => pts = 20

C8_Witness ==
    /\ Scored
    /\ rcpt = [TargetReceipt EXCEPT !.total = <<"2", ".", "0", "1">>]
    /\ pts = 45

\* What holds of the code: every rule but R3 is as in the table, and R3 is
\* decided by the truncated product.
C8_RuleSumWithTruncatedR3 ==
    Scored =>
        /\ pts = RulesButR3(rcpt)
                 + (IF IntOfFloatTimes100(Cents(rcpt.total)) % 25 = 0 THEN 25 ELSE 0)
        /\ pts >= 0
        /\ rcpt = TargetReceipt => pts = 20

\* C9: R3 awards its 25 points exactly when the total in cents is divisible
\* by 25; 100.00 earns R2 and R3, 100.25 only R3, 100.10 neither.
C9_R3IffCentsDivisible ==
    Scored =>
        /\ (pts - RulesButR3(rcpt) = 25) <=> (Cents(rcpt.total) % 25 = 0)
        /\ pts - RulesButR3(rcpt) \in {0, 25}

\* What the code does instead: 2.01 is not a multiple of 0.25 and earns R3.
C9_TwoDollarsOneCentEarnsR3 ==
    /\ Scored
    /\ rcpt.total = <<"2", ".", "0", "1">>
    /\ pts - RulesButR3(rcpt) = 25

\* The boundary totals of C9 behave as stated.
C9_BoundaryTotals ==
    Scored =>
        /\ rcpt.total = FormatCents(10000) => R2(rcpt) = 50 /\ pts - RulesButR3(rcpt) = 25
        /\ rcpt.total = FormatCents(10025) => R2(rcpt) = 0 /\ pts - RulesButR3(rcpt) = 25
        /\ rcpt.total = FormatCents(10010) => R2(rcpt) = 0 /\ pts - RulesButR3(rcpt) = 0

(***************************************************************************)
(* Scoring and the store.                                                  *)
(***************************************************************************)
\* The goroutine has answered a submit with an identifier.
Submitted(p) == pc[p] = "done" /\ req[p].kind = "submit" /\ resp[p].status = 200

\* calculatePoints of the receipt of every body a submit request carries,
\* tabulated.
ScoreOf ==
    [b \in {r.body : r \in SubmitRequests} |->
        IF b.wellFormed THEN calculatePoints(b.receipt) ELSE NoPoints]

\* C11: the points of a submit are calculatePoints of its receipt whatever
\* the store holds and whatever came before; the identifier it is given is
\* one no earlier submit was given; its insert adds exactly that one entry
\* and leaves every other entry as it was; so two submits of one receipt
\* end with two distinct identifiers under which the same points are stored,
\* and a lookup of a returned identifier answers with those points.
C11_ScoreOfReceiptAlone ==
    /\ [][\A p \in Procs :
            \* the step of SubmitBegin that passes every check
            /\ (pc[p] = "idle" /\ pc'[p] = "lock") =>
                /\ points'[p] = ScoreOf[req'[p].body]
                /\ newid'[p] \notin issued
                /\ newid'[p] \notin DOMAIN receipts
            \* the step of SubmitInsert
            /\ (pc[p] = "insert" /\ pc'[p] = "unlock") =>
                /\ newid[p] \notin DOMAIN receipts
                /\ DOMAIN receipts' = DOMAIN receipts \cup {newid[p]}
                /\ Cardinality(DOMAIN receipts') = Cardinality(DOMAIN receipts) + 1
                /\ \A i \in DOMAIN receipts : receipts'[i] = receipts[i]
                /\ receipts'[newid[p]] =
                       ProcessedReceipt(newid[p], ScoreOf[req[p].body])]_vars
    /\ [](\A p, q \in Procs :
            /\ Submitted(p) =>
                /\ resp[p].id \in DOMAIN receipts
                /\ receipts[resp[p].id].Points = ScoreOf[req[p].body]
            /\ (p # q /\ Submitted(p) /\ Submitted(q)) => resp[p].id # resp[q].id
            /\ (/\ Submitted(p) /\ Answered(q) /\ req[q].id = resp[p].id
                /\ (sawAcked[q] \/ resp[q].status = 200)) =>
                resp[q] = PointsResponse(ScoreOf[req[p].body]))

\* Two submits of the Target receipt, a submit of the other receipt between
\* them or not: two identifiers, 20 points under each.
C11_Witness ==
    \E p, q \in Procs :
        /\ p # q
        /\ Submitted(p) /\ Submitted(q)
        /\ req[p].body = Body(TargetReceipt) /\ req[q].body = Body(TargetReceipt)
        /\ resp[p].id # resp[q].id
        /\ receipts[resp[p].id].Points = 20
        /\ receipts[resp[q].id].Points = 20

\* A lookup answers with the points of the submit that returned its id.
C11_LookupWitness ==
    \E p, q \in Procs :
        /\ Submitted(p) /\ Answered(q) /\ req[q].id = resp[p].id
        /\ sawAcked[q]
        /\ resp[q].points = ScoreOf[req[p].body]
        /\ Cardinality(DOMAIN receipts) = 2

====
